---- MODULE Spec2Model ----
(***************************************************************************)
(* Model of package feedtrigger (src/cmd/gh-repos-mon/main.go):            *)
(* FeedAction.Run starts one worker goroutine per feed in an errgroup;     *)
(* each worker calls FeedAction.run (one poll cycle) at once and then on   *)
(* every tick of its own ticker.  A poll cycle fetches the feed, reads the *)
(* stored FeedHead of the feed's URL, calls OnNewRecord for the items in   *)
(* front of the stored title and writes the new FeedHead under the mutex.  *)
(***************************************************************************)
EXTENDS Naturals, Sequences, FiniteSets

\* ---------------------------------------------------------------- bounds
\* Largest number of feeds handed to New (len(a.Feeds)).
NFeeds == 2
\* Longest item sequence a fetch returns in the one-feed specification.
MaxLen == 3
\* Longest item sequence a fetch returns in the many-feed specification.
ConcLen == 1

\* -------------------------------------------------------------- the data
URLs == {"u1", "u2"}
Titles == {"A", "B", "C"}
ConcTitles == {"A", "B"}

\* A gofeed.Item as far as the package reads it: Title, Updated, Published.
Item(t, v) == [title |-> t, updated |-> "u" \o v, published |-> "p" \o v]
\* Every title in its first edition, and a later edition of "A".
Items == {Item(t, "1") : t \in Titles} \cup {Item("A", "2")}
ConcItems == {Item(t, "1") : t \in ConcTitles}

SeqsUpTo(S, n) == UNION {[1..k -> S] : k \in 0..n}
\* What the remote feeds may serve (feed.Items of a successful fetch).
PollRemote == SeqsUpTo(Items, MaxLen)
ConcRemote == SeqsUpTo(ConcItems, ConcLen)

\* The zero value of FeedHead (var head FeedHead).
ZeroHead == [title |-> "", updated |-> "", published |-> ""]

HeadOfSwapped(zitem) ==
    [title |-> zitem.title, updated |-> zitem.published, published |-> zitem.updated]

\* &FeedHead{Title: zitem.Title, Updated: zitem.Updated, Published: zitem.Published}
HeadOf(zitem) ==
    [title |-> zitem.title, updated |-> zitem.updated, published |-> zitem.published]

Heads == {HeadOf(it) : it \in Items}
ConcHeads == {HeadOf(it) : it \in ConcItems}

VARIABLES
    feeds,      \* a.Feeds: the URL of each feed, in order
    env,        \* which feeds the remote side serves: "conc" or "poll"
    store,      \* a.Store: URL -> <<>> (no record) or <<FeedHead>>
    mutex,      \* a.Mutex: 0 when free, else the worker holding it
    cancelled,  \* gctx is done
    groupErr,   \* the errgroup's recorded error: <<>> (nil) or <<worker, kind>>
    runPc,      \* position of Run: "wait", "closing", "returned"
    runErr,     \* what g.Wait() handed to Run
    closeCount, \* calls of a.Store.Close by this Run
    crashed,    \* the process died of a panic
    pc,         \* position of each worker
    items,      \* feed.Items of the worker's latest successful fetch
    found,      \* found of the worker's latest Store.Get
    head,       \* head of the worker's latest Store.Get
    i,          \* loop index of run's for loop (1-based)
    calls,      \* history: the items OnNewRecord was called with in the cycle
    outcome,    \* history: how the worker's cycle ended ("none": not yet)
    prev,       \* history: the feed's previous cycle, <<>> or <<[items, head, outcome]>>
    rerun,      \* history: the cycle repeats the fetch of the previous one
    headSame,   \* history: Store.Get answered as in the previous cycle
    failOrder   \* history: the workers in the order they failed

vars == <<feeds, env, store, mutex, cancelled, groupErr, runPc, runErr,
          closeCount, crashed, pc, items, found, head, i, calls, outcome,
          prev, rerun, headSame, failOrder>>

cfgVars == <<feeds, env>>
runVars == <<runPc, runErr, closeCount>>
histVars == <<prev, rerun, headSame>>

Remote == IF env = "poll" THEN PollRemote ELSE ConcRemote

Workers == DOMAIN feeds

\* ------------------------------------------------------------------ Init
\* State after New(store, feeds...) and the g.Go calls of Run: every worker
\* is about to fetch ("fail early" poll), the store holds what earlier runs
\* of the process left in it.
InitWorkers ==
    /\ mutex = 0
    /\ cancelled = FALSE
    /\ groupErr = <<>>
    /\ runPc = "wait"
    /\ runErr = <<>>
    /\ closeCount = 0
    /\ crashed = FALSE
    /\ pc = [w \in Workers |-> "fetch"]
    /\ items = [w \in Workers |-> <<>>]
    /\ found = [w \in Workers |-> FALSE]
    /\ head = [w \in Workers |-> ZeroHead]
    /\ i = [w \in Workers |-> 1]
    /\ calls = [w \in Workers |-> <<>>]
    /\ outcome = [w \in Workers |-> "none"]
    /\ prev = [w \in Workers |-> <<>>]
    /\ rerun = [w \in Workers |-> "fresh"]
    /\ headSame = [w \in Workers |-> FALSE]
    /\ failOrder = <<>>

\* Any number of feeds up to NFeeds, URLs possibly shared, small feeds.
Init ==
    /\ feeds \in SeqsUpTo(URLs, NFeeds)
    /\ env = "conc"
    /\ store \in [URLs -> {<<>>} \cup {<<h>> : h \in ConcHeads}]
    /\ InitWorkers

\* One feed, rich feeds.
InitPoll ==
    /\ feeds = <<"u1">>
    /\ env = "poll"
    /\ store \in {s \in [URLs -> {<<>>} \cup {<<h>> : h \in Heads}] : s["u2"] = <<>>}
    /\ InitWorkers

\* ------------------------------------------------------------- errgroup
\* The worker's function returns err to the errgroup: errOnce records the
\* first error and cancels gctx; the goroutine ends.
FailRetry(w, kind) ==
    /\ pc' = [pc EXCEPT ![w] = "fetch"]
    /\ outcome' = [outcome EXCEPT ![w] = kind]
    /\ groupErr' = IF groupErr = <<>> THEN <<w, kind>> ELSE groupErr
    /\ cancelled' = TRUE
    /\ failOrder' = Append(failOrder, w)

FailLastWins(w, kind) ==
    /\ pc' = [pc EXCEPT ![w] = "done"]
    /\ outcome' = [outcome EXCEPT ![w] = kind]
    /\ groupErr' = <<w, kind>>
    /\ cancelled' = TRUE
    /\ failOrder' = Append(failOrder, w)

Fail(w, kind) ==
    /\ pc' = [pc EXCEPT ![w] = "done"]
    /\ outcome' = [outcome EXCEPT ![w] = kind]
    /\ groupErr' = IF groupErr = <<>> THEN <<w, kind>> ELSE groupErr
    /\ cancelled' = TRUE
    /\ failOrder' = Append(failOrder, w)

\* The process is alive: its goroutines can take steps.
Alive == ~crashed

\* ------------------------------------------------------------ poll cycle
\* gofeed.NewParser().ParseURLWithContext(f.URL, ctx) returns a feed with at
\* least one item while gctx is not done; zitem := feed.Items[0].
FetchOk(w, s) ==
    /\ Alive /\ pc[w] = "fetch"
    /\ ~cancelled
    /\ s \in Remote /\ s # <<>>
    /\ pc' = [pc EXCEPT ![w] = "get"]
    /\ items' = [items EXCEPT ![w] = s]
    /\ LET same == prev[w] # <<>> /\ prev[w][1].items = s
       IN /\ rerun' = [rerun EXCEPT ![w] =
                          IF ~same THEN "fresh"
                          ELSE IF prev[w][1].outcome = "ok" THEN "again_ok"
                          ELSE "again_cb"]
          /\ prev' = [prev EXCEPT ![w] = IF same THEN @ ELSE <<>>]
    /\ UNCHANGED <<cfgVars, runVars, store, mutex, cancelled, groupErr, crashed,
                   found, head, i, calls, outcome, headSame, failOrder>>

\* The fetch succeeds with no items: feed.Items[0] panics, the process dies.
FetchEmpty(w) ==
    /\ Alive /\ pc[w] = "fetch"
    /\ ~cancelled
    /\ <<>> \in Remote
    /\ crashed' = TRUE
    /\ UNCHANGED <<cfgVars, runVars, store, mutex, cancelled, groupErr, pc, items,
                   found, head, i, calls, outcome, histVars, failOrder>>

\* ParseURLWithContext fails (network, parse, or gctx done).
FetchFail(w) ==
    /\ Alive /\ pc[w] = "fetch"
    /\ Fail(w, "fetch")
    /\ UNCHANGED <<cfgVars, runVars, store, mutex, crashed, items, found, head, i,
                   calls, histVars>>

StoreGetUnderLock(w) ==
    /\ Alive /\ pc[w] = "get"
    /\ mutex = 0
    /\ LET rec == store[feeds[w]]
           h == IF rec = <<>> THEN ZeroHead ELSE rec[1]
       IN /\ found' = [found EXCEPT ![w] = rec # <<>>]
          /\ head' = [head EXCEPT ![w] = h]
          /\ headSame' = [headSame EXCEPT ![w] =
                             prev[w] # <<>> /\ h = prev[w][1].head]
          /\ prev' = [prev EXCEPT ![w] = <<>>]
          /\ pc' = [pc EXCEPT ![w] = IF rec = <<>> THEN "boot_lock" ELSE "loop"]
    /\ i' = [i EXCEPT ![w] = 1]
    /\ UNCHANGED <<cfgVars, runVars, store, mutex, cancelled, groupErr, crashed,
                   items, calls, outcome, rerun, failOrder>>

\* found, err := a.Store.Get(f.URL, &head) with err == nil.
StoreGet(w) ==
    /\ Alive /\ pc[w] = "get"
    /\ LET rec == store[feeds[w]]
           h == IF rec = <<>> THEN ZeroHead ELSE rec[1]
       IN /\ found' = [found EXCEPT ![w] = rec # <<>>]
          /\ head' = [head EXCEPT ![w] = h]
          /\ headSame' = [headSame EXCEPT ![w] =
                             prev[w] # <<>> /\ h = prev[w][1].head]
          /\ prev' = [prev EXCEPT ![w] = <<>>]
          /\ pc' = [pc EXCEPT ![w] = IF rec = <<>> THEN "boot_lock" ELSE "loop"]
    /\ i' = [i EXCEPT ![w] = 1]
    /\ UNCHANGED <<cfgVars, runVars, store, mutex, cancelled, groupErr, crashed,
                   items, calls, outcome, rerun, failOrder>>

GetFailBootstraps(w) ==
    /\ Alive /\ pc[w] = "get"
    /\ Fail(w, "get")
    /\ store' = [store EXCEPT ![feeds[w]] = <<HeadOf(items[w][1])>>]
    /\ UNCHANGED <<cfgVars, runVars, mutex, crashed, items, found, head, i,
                   calls, histVars>>

\* a.Store.Get returns an error.
GetFail(w) ==
    /\ Alive /\ pc[w] = "get"
    /\ Fail(w, "get")
    /\ UNCHANGED <<cfgVars, runVars, store, mutex, crashed, items, found, head, i,
                   calls, histVars>>

AcquireNoWait(w) == mutex' = w

\* a.Lock(): blocks until the mutex is free.
Acquire(w) == mutex = 0 /\ mutex' = w

\* a.Unlock().
Release(w) == mutex' = 0

PutFirstFeed(w) ==
    store' = [store EXCEPT ![feeds[1]] = <<HeadOf(items[w][1])>>]

PutOldest(w) ==
    store' = [store EXCEPT ![feeds[w]] = <<HeadOf(items[w][Len(items[w])])>>]

\* a.Store.Set(f.URL, &FeedHead{...zitem...}) with err == nil.
Put(w) == store' = [store EXCEPT ![feeds[w]] = <<HeadOf(items[w][1])>>]

\* First run of the feed: a.Lock() before the bootstrap write.
BootLock(w) ==
    /\ Alive /\ pc[w] = "boot_lock"
    /\ Acquire(w)
    /\ pc' = [pc EXCEPT ![w] = "boot_set"]
    /\ UNCHANGED <<cfgVars, runVars, store, cancelled, groupErr, crashed, items,
                   found, head, i, calls, outcome, histVars, failOrder>>

BootSetOk(w) ==
    /\ Alive /\ pc[w] = "boot_set"
    /\ Put(w)
    /\ pc' = [pc EXCEPT ![w] = "boot_unlock"]
    /\ UNCHANGED <<cfgVars, runVars, mutex, cancelled, groupErr, crashed, items,
                   found, head, i, calls, outcome, histVars, failOrder>>

\* The bootstrap Set fails: run returns without a.Unlock().
BootSetFail(w) ==
    /\ Alive /\ pc[w] = "boot_set"
    /\ Fail(w, "set")
    /\ UNCHANGED <<cfgVars, runVars, store, mutex, crashed, items, found, head, i,
                   calls, histVars>>

\* a.Unlock(); return nil: the cycle succeeded, the worker waits for its ticker.
BootUnlock(w) ==
    /\ Alive /\ pc[w] = "boot_unlock"
    /\ Release(w)
    /\ pc' = [pc EXCEPT ![w] = "tick"]
    /\ outcome' = [outcome EXCEPT ![w] = "ok"]
    /\ UNCHANGED <<cfgVars, runVars, store, cancelled, groupErr, crashed, items,
                   found, head, i, calls, histVars, failOrder>>

IsNewByUpdated(h, it) == h.updated # it.updated

\* head.Title != feed.Items[i].Title
IsNew(h, it) == h.title # it.title

\* Loop body, new item: f.OnNewRecord(feed.Items[i]) is called.
Invoke(w) ==
    /\ Alive /\ pc[w] = "loop"
    /\ i[w] <= Len(items[w])
    /\ IsNew(head[w], items[w][i[w]])
    /\ calls' = [calls EXCEPT ![w] = Append(@, items[w][i[w]])]
    /\ pc' = [pc EXCEPT ![w] = "callback"]
    /\ UNCHANGED <<cfgVars, runVars, store, mutex, cancelled, groupErr, crashed,
                   items, found, head, i, outcome, histVars, failOrder>>

\* OnNewRecord returns nil: i++.
CallbackOk(w) ==
    /\ Alive /\ pc[w] = "callback"
    /\ i' = [i EXCEPT ![w] = @ + 1]
    /\ pc' = [pc EXCEPT ![w] = "loop"]
    /\ UNCHANGED <<cfgVars, runVars, store, mutex, cancelled, groupErr, crashed,
                   items, found, head, calls, outcome, histVars, failOrder>>

CallbackFailStores(w) ==
    /\ Alive /\ pc[w] = "callback"
    /\ Fail(w, "callback")
    /\ Put(w)
    /\ UNCHANGED <<cfgVars, runVars, mutex, crashed, items, found, head, i,
                   calls, histVars>>

\* OnNewRecord returns an error: run returns it.
CallbackFail(w) ==
    /\ Alive /\ pc[w] = "callback"
    /\ Fail(w, "callback")
    /\ UNCHANGED <<cfgVars, runVars, store, mutex, crashed, items, found, head, i,
                   calls, histVars>>

\* The loop ends (i reached len(feed.Items), or break on the stored title).
LoopExit(w) ==
    /\ Alive /\ pc[w] = "loop"
    /\ \/ i[w] > Len(items[w])
       \/ /\ i[w] <= Len(items[w])
          /\ ~IsNew(head[w], items[w][i[w]])
    /\ pc' = [pc EXCEPT ![w] = "lock"]
    /\ UNCHANGED <<cfgVars, runVars, store, mutex, cancelled, groupErr, crashed,
                   items, found, head, i, calls, outcome, histVars, failOrder>>

\* a.Lock() before the end-of-cycle write.
Lock(w) ==
    /\ Alive /\ pc[w] = "lock"
    /\ Acquire(w)
    /\ pc' = [pc EXCEPT ![w] = "set"]
    /\ UNCHANGED <<cfgVars, runVars, store, cancelled, groupErr, crashed, items,
                   found, head, i, calls, outcome, histVars, failOrder>>

SetOkOnlyIfNew(w) ==
    /\ Alive /\ pc[w] = "set"
    /\ IF calls[w] # <<>> THEN Put(w) ELSE store' = store
    /\ pc' = [pc EXCEPT ![w] = "unlock"]
    /\ UNCHANGED <<cfgVars, runVars, mutex, cancelled, groupErr, crashed, items,
                   found, head, i, calls, outcome, histVars, failOrder>>

\* The end-of-cycle Set succeeds.
SetOk(w) ==
    /\ Alive /\ pc[w] = "set"
    /\ Put(w)
    /\ pc' = [pc EXCEPT ![w] = "unlock"]
    /\ UNCHANGED <<cfgVars, runVars, mutex, cancelled, groupErr, crashed, items,
                   found, head, i, calls, outcome, histVars, failOrder>>

\* The end-of-cycle Set fails: run returns without a.Unlock().
SetFail(w) ==
    /\ Alive /\ pc[w] = "set"
    /\ Fail(w, "set")
    /\ UNCHANGED <<cfgVars, runVars, store, mutex, crashed, items, found, head, i,
                   calls, histVars>>

Unlock(w) ==
    /\ Alive /\ pc[w] = "unlock"
    /\ Release(w)
    /\ pc' = [pc EXCEPT ![w] = "tick"]
    /\ outcome' = [outcome EXCEPT ![w] = "ok"]
    /\ UNCHANGED <<cfgVars, runVars, store, cancelled, groupErr, crashed, items,
                   found, head, i, calls, histVars, failOrder>>

\* What history keeps of a finished cycle.
Cycle(w) == [items |-> items[w], head |-> head[w], outcome |-> outcome[w]]

\* A new call of run by the workers ws: fresh locals, nothing called yet.
NewFrame(ws) ==
    /\ items' = [w \in Workers |-> IF w \in ws THEN <<>> ELSE items[w]]
    /\ found' = [w \in Workers |-> IF w \in ws THEN FALSE ELSE found[w]]
    /\ head' = [w \in Workers |-> IF w \in ws THEN ZeroHead ELSE head[w]]
    /\ i' = [w \in Workers |-> IF w \in ws THEN 1 ELSE i[w]]
    /\ calls' = [w \in Workers |-> IF w \in ws THEN <<>> ELSE calls[w]]
    /\ outcome' = [w \in Workers |-> IF w \in ws THEN "none" ELSE outcome[w]]

TickEarly(w) ==
    /\ Alive /\ pc[w] \in {"tick", "unlock"}
    /\ pc' = [pc EXCEPT ![w] = "fetch"]
    /\ prev' = [prev EXCEPT ![w] = <<Cycle(w)>>]
    /\ NewFrame({w})
    /\ UNCHANGED <<cfgVars, runVars, store, mutex, cancelled, groupErr, crashed,
                   rerun, headSame, failOrder>>

\* The worker's ticker fires: a.run(gctx, f) is called again (gctx is not
\* looked at by the loop), the fetch starts.
Tick(w) ==
    /\ Alive /\ pc[w] = "tick"
    /\ pc' = [pc EXCEPT ![w] = "fetch"]
    /\ prev' = [prev EXCEPT ![w] = <<Cycle(w)>>]
    /\ NewFrame({w})
    /\ UNCHANGED <<cfgVars, runVars, store, mutex, cancelled, groupErr, crashed,
                   rerun, headSame, failOrder>>

\* ------------------------------------------------------------------- Run
\* The caller cancels the ctx handed to Run; gctx derives from it.
CallerCancel ==
    /\ Alive /\ ~cancelled
    /\ cancelled' = TRUE
    /\ UNCHANGED <<cfgVars, runVars, store, mutex, groupErr, crashed, pc, items,
                   found, head, i, calls, outcome, histVars, failOrder>>

SomeDone == \E w \in Workers : pc[w] = "done"

\* g.Wait() returns once every goroutine of the group has returned.
AllDone == \A w \in Workers : pc[w] = "done"

GroupWait ==
    /\ Alive /\ runPc = "wait"
    /\ AllDone
    /\ runPc' = "closing"
    /\ runErr' = groupErr
    /\ cancelled' = TRUE
    /\ UNCHANGED <<cfgVars, closeCount, store, mutex, groupErr, crashed, pc, items,
                   found, head, i, calls, outcome, histVars, failOrder>>

StoreCloseBeforeWait ==
    /\ runPc = "wait" /\ closeCount = 0 /\ ~crashed
    /\ closeCount' = 1
    /\ UNCHANGED <<cfgVars, runPc, runErr, store, mutex, cancelled, groupErr,
                   crashed, pc, items, found, head, i, calls, outcome, histVars,
                   failOrder>>

StoreCloseTwice ==
    /\ runPc = "closing" /\ ~crashed
    /\ closeCount' = closeCount + 2
    /\ runPc' = "returned"
    /\ UNCHANGED <<cfgVars, runErr, store, mutex, cancelled, groupErr, crashed, pc,
                   items, found, head, i, calls, outcome, histVars, failOrder>>

\* defer a.Store.Close(), then Run returns runErr.
StoreClose ==
    /\ runPc = "closing" /\ ~crashed
    /\ closeCount' = closeCount + 1
    /\ runPc' = "returned"
    /\ UNCHANGED <<cfgVars, runErr, store, mutex, cancelled, groupErr, crashed, pc,
                   items, found, head, i, calls, outcome, histVars, failOrder>>

\* The process ended (log.Fatal after Run, or a panic) and main is started
\* again on the same store file: a new FeedAction, new goroutines.  Of the
\* old run, history keeps the cycles that failed in the callback.
Restart ==
    /\ runPc = "returned" \/ crashed
    /\ mutex' = 0
    /\ cancelled' = FALSE
    /\ groupErr' = <<>>
    /\ runPc' = "wait"
    /\ runErr' = <<>>
    /\ closeCount' = 0
    /\ crashed' = FALSE
    /\ pc' = [w \in Workers |-> "fetch"]
    /\ failOrder' = <<>>
    /\ prev' = [w \in Workers |->
                  IF outcome[w] = "callback" THEN <<Cycle(w)>> ELSE <<>>]
    /\ NewFrame(Workers)
    /\ UNCHANGED <<cfgVars, store, rerun, headSame>>

\* Any step of worker w (the goroutine g.Go started for feed w).
WorkerStep(w) ==
    \/ \E s \in Remote : FetchOk(w, s)
    \/ FetchEmpty(w)
    \/ FetchFail(w)
    \/ StoreGet(w)
    \/ GetFail(w)
    \/ BootLock(w)
    \/ BootSetOk(w)
    \/ BootSetFail(w)
    \/ BootUnlock(w)
    \/ Invoke(w)
    \/ CallbackOk(w)
    \/ CallbackFail(w)
    \/ LoopExit(w)
    \/ Lock(w)
    \/ SetOk(w)
    \/ SetFail(w)
    \/ Unlock(w)
    \/ Tick(w)

Next ==
    \/ \E w \in Workers : \E s \in Remote : FetchOk(w, s)
    \/ \E w \in Workers : FetchEmpty(w)
    \/ \E w \in Workers : FetchFail(w)
    \/ \E w \in Workers : StoreGet(w)
    \/ \E w \in Workers : GetFail(w)
    \/ \E w \in Workers : BootLock(w)
    \/ \E w \in Workers : BootSetOk(w)
    \/ \E w \in Workers : BootSetFail(w)
    \/ \E w \in Workers : BootUnlock(w)
    \/ \E w \in Workers : Invoke(w)
    \/ \E w \in Workers : CallbackOk(w)
    \/ \E w \in Workers : CallbackFail(w)
    \/ \E w \in Workers : LoopExit(w)
    \/ \E w \in Workers : Lock(w)
    \/ \E w \in Workers : SetOk(w)
    \/ \E w \in Workers : SetFail(w)
    \/ \E w \in Workers : Unlock(w)
    \/ \E w \in Workers : Tick(w)
    \/ CallerCancel
    \/ GroupWait
    \/ StoreClose
    \/ Restart

Spec == Init /\ [][Next]_vars

SpecPoll == InitPoll /\ [][Next]_vars

\* Goroutines are scheduled, timers fire, and every call of the fetcher,
\* the store and the callback returns; Run's own steps are taken.
Fairness ==
    /\ \A w \in 1..NFeeds : WF_vars(w \in Workers /\ WorkerStep(w))
    /\ WF_vars(GroupWait)
    /\ WF_vars(StoreClose)

InitLive ==
    /\ feeds = <<"u1", "u2">>
    /\ env = "conc"
    /\ store = [u \in URLs |-> <<>>]
    /\ InitWorkers

SpecLive == InitLive /\ [][Next]_vars /\ Fairness

\* ------------------------------------------------------------ the claims
IsPrefix(p, q) == Len(p) <= Len(q) /\ p = SubSeq(q, 1, Len(p))

\* Index of the first item of S titled t, Len(S) + 1 when there is none.
FirstMatch(t, S) ==
    IF \E k \in 1..Len(S) : S[k].title = t
    THEN CHOOSE k \in 1..Len(S) :
            /\ S[k].title = t
            /\ \A j \in 1..(k - 1) : S[j].title # t
    ELSE Len(S) + 1

\* The items of S in front of the first one titled t.
NewItems(t, S) == SubSeq(S, 1, FirstMatch(t, S) - 1)

\* Worker w has read the store in the cycle its locals belong to.
AfterGet(w) ==
    \/ pc[w] \in {"boot_lock", "boot_set", "boot_unlock", "loop", "callback",
                  "lock", "set", "unlock", "tick"}
    \/ pc[w] = "done" /\ outcome[w] \in {"callback", "set"}

\* Worker w has left the callback loop of a cycle that found a marker.
LoopDone(w) ==
    /\ found[w]
    /\ \/ pc[w] \in {"lock", "set", "unlock", "tick"}
       \/ pc[w] = "done" /\ outcome[w] = "set"

\* C1: in a cycle whose marker was found, the callback has been called with
\* a prefix of the items in front of the first one titled like the marker,
\* in fetch order, and with exactly those once the loop is over.
C1_CallbacksAreItemsBeforeMarker ==
    \A w \in Workers :
        (AfterGet(w) /\ found[w]) =>
            /\ IsPrefix(calls[w], NewItems(head[w].title, items[w]))
            /\ LoopDone(w) => calls[w] = NewItems(head[w].title, items[w])

C1_Witness ==
    \E w \in Workers :
        /\ pc[w] = "tick" /\ found[w]
        /\ Len(items[w]) = 3 /\ Len(calls[w]) = 1
        /\ items[w][2].title = head[w].title
        /\ items[w][3].title # head[w].title

\* C2: a cycle that found no marker calls the callback zero times and, when
\* it succeeds, leaves the title, updated and published of the item at
\* index 0 as the feed's stored marker.
C2_BootstrapStoresNewestSilently ==
    \A w \in Workers :
        (AfterGet(w) /\ ~found[w]) =>
            /\ calls[w] = <<>>
            /\ outcome[w] = "ok" =>
                   store[feeds[w]] = <<[title |-> items[w][1].title,
                                        updated |-> items[w][1].updated,
                                        published |-> items[w][1].published]>>

C2_Witness ==
    \E w \in Workers :
        /\ ~found[w] /\ outcome[w] = "ok" /\ Len(items[w]) = 3
        /\ items[w][1].title = "A" /\ items[w][1].updated = "u2"

\* C3: a cycle whose callback failed stopped at the failing item and left
\* the stored marker as it read it; the cycle that repeats its fetch reads
\* the same marker, so it starts the callbacks over from the first new item.
C3_CallbackFailureKeepsMarker ==
    \A w \in Workers :
        /\ (pc[w] = "done" /\ outcome[w] = "callback") =>
               /\ calls[w] = SubSeq(items[w], 1, i[w])
               /\ IsPrefix(calls[w], NewItems(head[w].title, items[w]))
               /\ store[feeds[w]] = <<head[w]>>
        /\ (rerun[w] = "again_cb" /\ AfterGet(w)) =>
               /\ found[w] /\ headSame[w]
               /\ NewItems(head[w].title, items[w]) # <<>>
               /\ IsPrefix(calls[w], NewItems(head[w].title, items[w]))
               /\ pc[w] # "loop" => calls[w] # <<>> /\ calls[w][1] = items[w][1]

C3_Witness ==
    \E w \in Workers :
        /\ rerun[w] = "again_cb" /\ pc[w] = "done" /\ outcome[w] = "callback"
        /\ Len(calls[w]) = 2

\* C4: the first failure cancels the shared context, and the error the
\* group keeps and Run receives is the one of the worker that failed first.
FirstError ==
    IF failOrder = <<>> THEN <<>>
    ELSE <<failOrder[1], outcome[failOrder[1]]>>

C4_FirstErrorWins ==
    /\ failOrder # <<>> => cancelled /\ groupErr = FirstError
    /\ runPc \in {"closing", "returned"} => runErr = FirstError

C4_Witness ==
    /\ runPc = "returned" /\ Len(failOrder) = 2
    /\ outcome[failOrder[1]] = "callback"
    /\ outcome[failOrder[2]] = "set"

\* C5: once a worker has failed, Run eventually returns (or the process has
\* died of a panic).
C5_FailFastTerminates ==
    (\E w \in Workers : pc[w] = "done") ~> (runPc = "returned" \/ crashed)

\* C6: when Run has left g.Wait, every worker goroutine has returned.
C6_NoWorkerOutlivesRun ==
    runPc \in {"closing", "returned"} => \A w \in Workers : pc[w] = "done"

C6_Witness ==
    /\ runPc = "returned" /\ Len(failOrder) = 2
    /\ outcome[failOrder[2]] = "fetch"

\* C7: at most one worker is inside Store.Set, and it holds the mutex.
InSet(w) == pc[w] \in {"boot_set", "set"}

C7_WritesSerialized ==
    /\ Cardinality({w \in Workers : InSet(w)}) <= 1
    /\ \A w \in Workers : InSet(w) => mutex = w

C7_Witness ==
    \E w, v \in Workers :
        /\ pc[w] = "set" /\ pc[v] = "boot_lock"
        /\ feeds[w] # feeds[v]

\* C8: the mutex is held only by a worker that is in its write phase; a
\* worker whose cycle has ended does not hold it.
C8_LockReleasedOnEveryExit ==
    mutex # 0 => pc[mutex] \in {"boot_set", "boot_unlock", "set", "unlock"}

\* C9: Store.Close has been called exactly once when Run has returned, and
\* not before.
C9_StoreClosedExactlyOnce ==
    /\ runPc = "returned" => closeCount = 1
    /\ runPc # "returned" => closeCount = 0

C9_Witness ==
    runPc = "returned" /\ runErr # <<>> /\ Len(feeds) = 2

\* C10: a cycle that repeats the fetch of the successful cycle before it
\* calls the callback zero times and writes the marker it read.
C10_RepeatedFetchIsSilent ==
    \A w \in Workers :
        (rerun[w] = "again_ok" /\ AfterGet(w)) =>
            /\ found[w]
            /\ calls[w] = <<>>
            /\ outcome[w] = "ok" => store[feeds[w]] = <<head[w]>>

C10_Witness ==
    \E w \in Workers :
        /\ rerun[w] = "again_ok" /\ pc[w] = "tick"
        /\ Len(items[w]) = 3
        /\ items[w][3].title = items[w][1].title

\* C11: once a cycle has written (and when it has returned success) the
\* feed's stored marker is the title, updated and published of the item at
\* index 0 of the cycle's fetch, whatever was stored and however many items
\* were new; the write comes after every callback of the cycle.
C11_SuccessStoresNewest ==
    \A w \in Workers :
        pc[w] \in {"boot_unlock", "unlock", "tick"} =>
            /\ store[feeds[w]] = <<[title |-> items[w][1].title,
                                    updated |-> items[w][1].updated,
                                    published |-> items[w][1].published]>>
            /\ found[w] => calls[w] = NewItems(head[w].title, items[w])
            /\ pc[w] = "tick" <=> outcome[w] = "ok"

C11_Witness ==
    \E w \in Workers :
        /\ pc[w] = "tick" /\ found[w] /\ calls[w] = <<>>
        /\ head[w].title = items[w][1].title
        /\ head[w].updated # items[w][1].updated
        /\ store[feeds[w]][1].updated = items[w][1].updated

\* C12: once the shared context is cancelled, a worker that waits for its
\* ticker starts no new cycle: it never goes on to call the fetcher.
C12_CancelledWorkerStartsNoCycle ==
    [][\A w \in Workers :
          (cancelled /\ pc[w] = "tick" /\ runPc = "wait" /\ ~crashed) =>
              pc'[w] # "fetch"]_vars

\* C13: within a run, a worker starts a fetch only from waiting for its
\* ticker after a cycle that returned success, its write done and the mutex
\* released.
C13_CyclesSequential ==
    [][\A w \in Workers :
          (pc'[w] = "fetch" /\ pc[w] # "fetch" /\ runPc = "wait" /\ ~crashed) =>
              /\ pc[w] = "tick" /\ outcome[w] = "ok"
              /\ mutex # w
              /\ store[feeds[w]] # <<>>]_vars

C13_Witness ==
    \E w \in Workers :
        /\ pc[w] = "fetch" /\ runPc = "wait" /\ failOrder = <<>>
        /\ prev[w] # <<>> /\ prev[w][1].outcome = "ok"
        /\ Len(feeds) = 2

\* C14: a worker whose cycle failed has returned and stays so for the rest
\* of the run; no worker fails twice in a run.
C14_NoRetryAfterFailure ==
    \A k \in 1..Len(failOrder) :
        /\ pc[failOrder[k]] = "done"
        /\ \A j \in 1..Len(failOrder) : j # k => failOrder[j] # failOrder[k]

C14_Witness ==
    /\ Len(failOrder) = 2 /\ runPc = "wait"
    /\ outcome[failOrder[1]] = "get"
    /\ outcome[failOrder[2]] = "callback"

\* C15: while the process lives, whatever the other workers are doing (in a
\* fetch, waiting for a ticker, in a callback, holding the mutex), a worker
\* can finish its fetch, its store read, its callback and its write once it
\* has the mutex; only taking the mutex waits, and only for the mutex.
C15_OnlyTheWriteWaits ==
    ~crashed =>
        \A w \in Workers :
            /\ pc[w] = "fetch" =>
                   /\ ENABLED FetchFail(w)
                   /\ ~cancelled => ENABLED (\E s \in Remote : FetchOk(w, s))
            /\ pc[w] = "get" => ENABLED StoreGet(w)
            /\ pc[w] = "loop" => ENABLED (Invoke(w) \/ LoopExit(w))
            /\ pc[w] = "callback" => ENABLED CallbackOk(w)
            /\ pc[w] = "boot_set" => ENABLED BootSetOk(w)
            /\ pc[w] = "set" => ENABLED SetOk(w)
            /\ pc[w] = "boot_lock" => (ENABLED BootLock(w) <=> mutex = 0)
            /\ pc[w] = "lock" => (ENABLED Lock(w) <=> mutex = 0)

C15_Witness ==
    \E w, v \in Workers :
        /\ mutex = w /\ pc[w] = "done"
        /\ pc[v] = "get" /\ feeds[v] # feeds[w]

\* C16: the worker that holds the mutex is in its write phase (inside
\* Store.Set or about to unlock) and nowhere else.
C16_LockCoversWriteOnly ==
    \A w \in Workers :
        mutex = w => (InSet(w) \/ pc[w] \in {"boot_unlock", "unlock"})

\* C17: no step taken while the one worker is in its fetch or its store
\* read changes the store or calls the callback, so a cycle that fails there
\* leaves every stored marker as it was and has called nothing.
C17_EarlyFailureTouchesNothing ==
    [][\A w \in Workers :
          pc[w] \in {"fetch", "get"} =>
              /\ store' = store
              /\ calls'[w] = <<>>
              /\ pc'[w] \in {"fetch", "get", "done", "loop", "boot_lock"}
              /\ pc'[w] = "done" => outcome'[w] \in {"fetch", "get"}]_vars

C17_Witness ==
    \E w \in Workers :
        /\ pc[w] = "done" /\ outcome[w] = "get"
        /\ Len(items[w]) = 2
        /\ store[feeds[w]] # <<>> /\ store[feeds[w]][1].title # items[w][1].title

\* C18: a step changes the stored marker of a URL only if it is the Set of
\* a worker whose feed has that URL, and a Get answers with the record
\* stored under the worker's own URL.
C18_StoreAccessScopedByURL ==
    [][/\ \A u \in URLs :
             store'[u] # store[u] =>
                 \E w \in Workers :
                     /\ feeds[w] = u
                     /\ InSet(w)
                     /\ pc'[w] \in {"boot_unlock", "unlock"}
       /\ \A w \in Workers :
             (pc[w] = "get" /\ pc'[w] \in {"loop", "boot_lock"}) =>
                 /\ found'[w] <=> store[feeds[w]] # <<>>
                 /\ found'[w] => head'[w] = store[feeds[w]][1]]_vars

C18_Witness ==
    /\ feeds = <<"u1", "u2">>
    /\ pc[2] = "unlock"
    /\ store["u1"] # <<>> /\ store["u2"] # <<>>
    /\ store["u1"] # store["u2"]

\* C19: the process never dies of a panic: every cycle ends by returning.
C19_CycleNeverCrashes == ~crashed

\* C20: once Store.Close has been called, every worker has returned, so no
\* Store.Get or Store.Set is still to come.
C20_NoStoreAccessAfterClose ==
    closeCount > 0 => \A w \in Workers : pc[w] = "done"

C20_Witness ==
    /\ closeCount = 1 /\ Len(feeds) = 2
    /\ outcome[failOrder[1]] = "set"
    /\ \E u \in URLs : store[u] # <<>>

====
